---- MODULE Spec2Model ----
(***************************************************************************)
(* A model of the token-matching and validation engine of ashparser       *)
(* (src/src/ashparser/parser.py): Parser.parse, the recursive             *)
(* Parser._parse_args loop, the arity collector, flattening and the three *)
(* cross-constraint validators, over the Parser object's fields.          *)
(*                                                                         *)
(* Python values are modelled as follows.                                  *)
(*  - a dict (and an IndexedDict) is a sequence of [k, v] pairs in         *)
(*    insertion order; assigning an existing key keeps its place;          *)
(*  - a converted value is a record named after its type: [str |-> s],     *)
(*    [int |-> n], [float |-> n], [bool |-> b];                            *)
(*  - a value of a result dict is [vals |-> <<...>>] (the list stored for  *)
(*    an argument), [map |-> d] (the dict of a nested group) or            *)
(*    [ref |-> r] (the list object r of _recurring_data: the result holds  *)
(*    the list itself, so later appends show through it);                  *)
(*  - an exception is a record Err(type, ...) with the fields its          *)
(*    constructor is given.                                                *)
(***************************************************************************)
EXTENDS Integers, Sequences, FiniteSets, TLC

\* ------------------------------------------------------------------ bounds
\* longest token list handed to parse()
MaxLen == 5
\* most entries of a result map handed to _flatten_result on its own
MaxEntries == 3
\* parse() calls made on one Parser, and the longest token list of each,
\* where a Parser is used for more than one call
MaxCalls == 2
MaxReuseLen == 2
\* largest magnitude of an integer given to Argument(...) as num_args, min or max
MaxInt == 2
\* iterations of the token loop followed within one parse() call
MaxIters == 7

\* sys.maxsize, the upper arity bound of "*" and "+" (larger than any token list)
maxsize == 2147483647

\* ------------------------------------------------------------ Python values
NoneKey == "<None>"
NoneV == [none |-> TRUE]
StrV(s) == [str |-> s]
IntV(n) == [int |-> n]
FloatV(n) == [float |-> n]
BoolV(b) == [bool |-> b]

\* the spellings str.startswith is asked about
DashDashWords == {"--count", "--json", "--xml", "--use-db", "--db-name", "--job",
                  "--two", "--nums", "--opt", "--bogus", "--level", "--req",
                  "--a", "--b", "--c", "--d", "--foo"}
DashWords == DashDashWords \cup {"-c", "-1", "-j", "-f"}

startswith(s, prefix) ==
    CASE prefix = "--" -> s \in DashDashWords
      [] prefix = "-" -> s \in DashWords
      [] OTHER -> FALSE

\* the decimal spellings int() and float() accept
Numerals == {"1", "2", "3", "5", "120", "-1"}
NumeralValue(s) ==
    CASE s = "1" -> 1
      [] s = "2" -> 2
      [] s = "3" -> 3
      [] s = "5" -> 5
      [] s = "120" -> 120
      [] s = "-1" -> 0 - 1
      [] OTHER -> 0

\* arg.type(value): the constructor call of list(map(arg.type, values))
Convertible(type, s) ==
    /\ type \in {"int", "float"} => s \in Numerals
    /\ type # "dict"

Convert(type, s) ==
    CASE type = "str" -> StrV(s)
      [] type = "int" -> IntV(NumeralValue(s))
      [] type = "float" -> FloatV(NumeralValue(s))
      [] type = "bool" -> BoolV(s # "")
      [] type = "dict" -> [map |-> <<>>]

\* ------------------------------------------------------------------- dicts
RemoveAt(s, j) == SubSeq(s, 1, j - 1) \o SubSeq(s, j + 1, Len(s))

DKeys(d) == {d[j].k : j \in DOMAIN d}
DHas(d, key) == \E j \in DOMAIN d : d[j].k = key
DIdx(d, key) == CHOOSE j \in DOMAIN d : d[j].k = key
DGet(d, key) == d[DIdx(d, key)].v
DSet(d, key, val) ==
    IF DHas(d, key)
    THEN [d EXCEPT ![DIdx(d, key)] = [k |-> key, v |-> val]]
    ELSE Append(d, [k |-> key, v |-> val])
DPop(d, key) == RemoveAt(d, DIdx(d, key))

RECURSIVE DUpdate(_, _)
DUpdate(d, e) ==
    IF e = <<>> THEN d
    ELSE DUpdate(DSet(d, Head(e).k, Head(e).v), Tail(e))

\* IndexedDict (package indexed_dict): an insertion-ordered dict whose keys
\* can be asked for by index and whose index can be asked for by key.
InRange(d, index) == index >= 0 /\ index < Len(d)
get_key_from_index(d, index) ==
    IF InRange(d, index) THEN d[index + 1].k ELSE NoneKey
position(d, key) == DIdx(d, key) - 1
pop_from_index(d, index) ==
    IF InRange(d, index) THEN RemoveAt(d, index + 1) ELSE d

\* -------------------------------------------------------------- exceptions
Err(type, name, bound, n, names, cond, rel) ==
    [type |-> type, name |-> name, bound |-> bound, n |-> n,
     names |-> names, cond |-> cond, rel |-> rel,
     value |-> {}, choices |-> {}, expected_type |-> ""]
NoErr == Err("", "", 0, 0, <<>>, "", "")
Raise(type, name) == Err(type, name, 0, 0, <<>>, "", "")

TooFewArgumentsError(arg_name, min_expected, received) ==
    Err("TooFewArgumentsError", arg_name, min_expected, received, <<>>, "", "")
TooManyArgumentsError(arg_name, max_expected, received) ==
    Err("TooManyArgumentsError", arg_name, max_expected, received, <<>>, "", "")
MissingRequiredArgumentError(arg_name) ==
    Raise("MissingRequiredArgumentError", arg_name)
UnknownArgumentError(arg_name) ==
    Raise("UnknownArgumentError", arg_name)
InvalidChoiceError(arg_name, value, choices) ==
    [Raise("InvalidChoiceError", arg_name) EXCEPT !.value = value, !.choices = choices]
\* value is the set of the one value that did not convert
ArgumentTypeError(value, expected_type) ==
    [Raise("ArgumentTypeError", "") EXCEPT !.value = {value},
                                          !.expected_type = expected_type]
MutuallyExclusiveArgumentsError(arg_names) ==
    Err("MutuallyExclusiveArgumentsError", "", 0, 0, arg_names, "", "")
ConditionalDependencyError(arg_name, condition, relation) ==
    Err("ConditionalDependencyError", arg_name, 0, 0, <<>>, condition, relation)

\* ------------------------------------------------------------- node trees
\* Argument.__init__ / Argument._parse_num_args: the arity bounds of a specifier
NumArgs(spec) ==
    CASE spec = "None" -> <<1, 1>>
      [] spec = "*" -> <<0, maxsize>>
      [] spec = "+" -> <<1, maxsize>>
      [] spec = "?" -> <<0, 1>>

Argument(name, alias, type, num_args, required, default, choices) ==
    [kind |-> "Argument", name |-> name, alias |-> alias, type |-> type,
     num_args |-> num_args, required |-> required, default |-> default,
     choices |-> choices, group_type |-> "", subtype |-> "", arguments |-> <<>>]

ArgumentGroup(name, alias, required, group_type, subtype, arguments) ==
    [kind |-> "ArgumentGroup", name |-> name, alias |-> alias, type |-> "",
     num_args |-> <<0, 0>>, required |-> required, default |-> NoneV,
     choices |-> {}, group_type |-> group_type, subtype |-> subtype,
     arguments |-> arguments]

\* The declared nodes, by object identity.  An alias of "" is None.
Node ==
    [n \in {"input", "count", "output", "json", "xml", "db", "dbf", "use_db",
            "db_name", "job", "name", "duration", "two", "nums", "opt", "level",
            "mode", "a", "b", "dep", "c", "d", "req", "grp", "gcount",
            "values", "scount", "sreq", "rgrp"} |->
      CASE n = "input" -> Argument("input", "", "str", NumArgs("None"), TRUE, NoneV, {})
        [] n = "count" -> Argument("--count", "-c", "int", NumArgs("None"), FALSE, IntV(1), {})
        [] n = "output" -> ArgumentGroup("output", "", FALSE, "mutually_exclusive_group", "",
                                         <<"json", "xml">>)
        [] n = "json" -> Argument("--json", "", "bool", NumArgs("None"), FALSE, NoneV, {})
        [] n = "xml" -> Argument("--xml", "", "bool", NumArgs("None"), FALSE, NoneV, {})
        [] n = "db" -> ArgumentGroup("db", "", FALSE, "conditional_group",
                                     "first_present_rest_required", <<"use_db", "db_name">>)
        [] n = "dbf" -> ArgumentGroup("db", "", FALSE, "conditional_group",
                                      "first_absent_rest_forbidden", <<"use_db", "db_name">>)
        [] n = "use_db" -> Argument("--use-db", "", "bool", NumArgs("None"), FALSE, NoneV, {})
        [] n = "db_name" -> Argument("--db-name", "", "str", NumArgs("None"), FALSE, NoneV, {})
        [] n = "job" -> ArgumentGroup("--job", "-j", FALSE, "recurring_group", "",
                                      <<"name", "duration">>)
        [] n = "name" -> Argument("name", "", "str", NumArgs("None"), FALSE, NoneV, {})
        [] n = "duration" -> Argument("duration", "", "int", NumArgs("None"), FALSE, NoneV, {})
        [] n = "two" -> Argument("--two", "", "str", <<2, 2>>, FALSE, NoneV, {})
        [] n = "nums" -> Argument("--nums", "", "int", NumArgs("+"), FALSE, NoneV, {})
        [] n = "opt" -> Argument("--opt", "", "str", NumArgs("?"), FALSE, NoneV, {})
        [] n = "level" -> Argument("--level", "", "int", NumArgs("+"), FALSE, NoneV,
                                   {IntV(1), IntV(2), IntV(3)})
        [] n = "mode" -> ArgumentGroup("mode", "", FALSE, "mutually_exclusive_group", "",
                                       <<"a", "b">>)
        [] n = "a" -> Argument("--a", "", "str", NumArgs("?"), FALSE, NoneV, {})
        [] n = "b" -> Argument("--b", "", "str", NumArgs("?"), FALSE, NoneV, {})
        [] n = "dep" -> ArgumentGroup("dep", "", FALSE, "conditional_group",
                                      "first_present_rest_required", <<"c", "d">>)
        [] n = "c" -> Argument("--c", "", "str", NumArgs("?"), FALSE, NoneV, {})
        [] n = "d" -> Argument("--d", "", "str", NumArgs("?"), FALSE, NoneV, {})
        [] n = "req" -> Argument("--req", "", "str", NumArgs("?"), TRUE, NoneV, {})
        [] n = "grp" -> ArgumentGroup("grp", "", FALSE, "argument_group", "", <<"gcount">>)
        [] n = "rgrp" -> ArgumentGroup("grp", "", TRUE, "argument_group", "", <<"gcount">>)
        [] n = "gcount" -> Argument("--count", "-c", "int", NumArgs("None"), FALSE,
                                    IntV(1), {})
        [] n = "values" -> Argument("values", "", "dict", NumArgs("None"), FALSE,
                                    [map |-> <<>>], {})
        [] n = "scount" -> Argument("--count", "", "int", NumArgs("None"), FALSE, NoneV, {})
        [] n = "sreq" -> Argument("--req", "", "str", NumArgs("?"), TRUE, NoneV, {})]

\* The schemas a Parser is built with: the children of the root group, in
\* declaration order, and the tokens tried against each.
Schemas == {"count", "output", "db", "dbf", "job", "arity", "choice", "order",
            "plain", "store"}

RootArguments(s) ==
    CASE s = "count" -> <<"input", "count">>
      [] s = "output" -> <<"output">>
      [] s = "db" -> <<"db">>
      [] s = "dbf" -> <<"dbf">>
      [] s = "job" -> <<"job">>
      [] s = "arity" -> <<"two", "nums", "opt">>
      [] s = "choice" -> <<"level">>
      [] s = "order" -> <<"mode", "dep", "req">>
      [] s = "plain" -> <<"grp">>
      [] s = "store" -> <<"values", "scount", "sreq">>
      [] s = "needs" -> <<"rgrp", "req">>

Alphabet(s) ==
    CASE s = "count" -> {"file.txt", "--count", "-c", "5", "input"}
      [] s = "output" -> {"output", "--json", "--xml", "true"}
      [] s = "db" -> {"db", "--use-db", "--db-name", "true"}
      [] s = "dbf" -> {"db", "--use-db", "--db-name", "true"}
      [] s = "job" -> {"--job", "-j", "name", "build", "duration", "120"}
      [] s = "arity" -> {"--two", "--nums", "--opt", "a", "-1"}
      [] s = "choice" -> {"--level", "1", "2", "3", "5", "a"}
      [] s = "order" -> {"mode", "dep", "--a", "--b", "--c", "--req"}
      [] s = "plain" -> {"grp", "--count", "-c", "5"}
      [] s = "store" -> {"values", "--count", "5", "--req"}

TokenLists(s) == UNION {[1..n -> Alphabet(s)] : n \in 0..MaxLen}


\* ------------------------------------------------------------------- state
VARIABLES
    schema,           \* the node tree the Parser was built with
    strictIndex,      \* whether IndexedDict raises on an index out of range
    parser_args,      \* Parser._parser_args
    positional_args,  \* Parser._positional_args
    recurring_data,   \* Parser._recurring_data: group name -> list object
    heap,             \* the list objects of _recurring_data, by reference
    consumed_args,    \* Parser._consumed_args
    ns_values,        \* Names._values
    ns_types,         \* Names._types
    pc,               \* "idle", "parsing" or "done"
    tokens,           \* the argument of the parse() call
    stack,            \* the active _parse_args calls, innermost last
    iters,            \* iterations of the token loop in this parse() call
    last,             \* what the most recent loop iteration did
    matched,          \* the dispatches of this parse() call: token, node, group
    outcome,          \* how the parse() call ended
    calls,            \* parse() calls made on this Parser so far
    made              \* an Argument(...) constructor call and what it produced

vars == <<schema, strictIndex, parser_args, positional_args, recurring_data, heap,
          consumed_args, ns_values, ns_types, pc, tokens, stack, iters, last, matched,
          outcome, calls, made>>

Children(g) == IF g = "root" THEN RootArguments(schema) ELSE Node[g].arguments

\* AddMixin._add_argument_to and ArgumentGroup.add_group, applied to every
\* declaration of a tree: the defaults and declared types of the namespace.
RECURSIVE Declare(_, _)
Declare(ns, nodes) ==
    IF nodes = <<>> THEN ns
    ELSE LET a == Node[Head(nodes)]
             one ==
               IF a.kind = "Argument"
               THEN [values |-> IF a.default # NoneV
                                THEN DSet(ns.values, a.name, a.default)
                                ELSE ns.values,
                     types |-> DSet(ns.types, a.name, a.type)]
               ELSE IF a.group_type = "recurring_group"
               THEN [values |-> DSet(ns.values, a.name, [tuple |-> <<>>]),
                     types |-> DSet(ns.types, a.name, "tuple")]
               ELSE ns
         IN  Declare(Declare(one, a.arguments), Tail(nodes))

NoLast ==
    [op |-> "none", group |-> "", token |-> "", arg |-> "", toks |-> <<>>,
     start |-> 0, values |-> <<>>, cursor |-> 0]
NoOutcome ==
    [status |-> "none", stage |-> "", err |-> NoErr, result |-> <<>>, flat |-> <<>>]
NoMade == [status |-> "none"]

\* Parser.__init__ followed by the declarations of one schema
Init ==
    /\ schema \in Schemas
    /\ strictIndex \in BOOLEAN
    /\ parser_args = <<>>
    /\ positional_args = <<>>
    /\ recurring_data = <<>>
    /\ heap = <<>>
    /\ consumed_args = <<>>
    /\ LET ns == Declare([values |-> <<>>, types |-> <<>>], RootArguments(schema))
       IN  ns_values = ns.values /\ ns_types = ns.types
    /\ pc = "idle"
    /\ tokens = <<>>
    /\ stack = <<>>
    /\ iters = 0
    /\ last = NoLast
    /\ matched = <<>>
    /\ outcome = NoOutcome
    /\ calls = 0
    /\ made = NoMade

\* ------------------------------------------------------ _parse_args prologue
\* Parser._index_parser_args: the children of one group are added to the
\* Parser-wide indices.
RECURSIVE index_parser_args(_, _, _)
index_parser_args(pa, pos, nodes) ==
    IF nodes = <<>> THEN [pa |-> pa, pos |-> pos]
    ELSE LET id == Head(nodes)
             a == Node[id]
             pos1 == IF ~startswith(a.name, "--") THEN DSet(pos, a.name, id) ELSE pos
             pa1 == DSet(pa, a.name, id)
             pa2 == IF a.alias # "" THEN DSet(pa1, a.alias, id) ELSE pa1
         IN  index_parser_args(pa2, pos1, Tail(nodes))

\* self._recurring_data.update({g.name: [] for the Recurring children})
RECURSIVE recurring_update(_, _, _)
recurring_update(rec, hp, nodes) ==
    IF nodes = <<>> THEN [rec |-> rec, heap |-> hp]
    ELSE LET a == Node[Head(nodes)]
         IN  IF a.kind = "ArgumentGroup" /\ a.group_type = "recurring_group"
             THEN recurring_update(DSet(rec, a.name, Len(hp) + 1), Append(hp, <<>>),
                                   Tail(nodes))
             ELSE recurring_update(rec, hp, Tail(nodes))

\* the frame of a _parse_args(parser, tokens) call at its `while`
Frame(g, toks) ==
    [group |-> g, tokens |-> toks, i |-> 0, position |-> 0, result |-> <<>>,
     total |-> Len(toks)]

Top == stack[Len(stack)]

\* parse(args): the call enters _parse_args(self._root_group, args)
ParseCall(lists) ==
    /\ \E toks \in lists :
         LET ix == index_parser_args(parser_args, positional_args, Children("root"))
             ru == recurring_update(recurring_data, heap, Children("root"))
         IN  /\ tokens' = toks
             /\ parser_args' = ix.pa
             /\ positional_args' = ix.pos
             /\ recurring_data' = ru.rec
             /\ heap' = ru.heap
             /\ stack' = <<Frame("root", toks)>>
    /\ pc' = "parsing"
    /\ iters' = 0
    /\ last' = NoLast
    /\ matched' = <<>>
    /\ outcome' = NoOutcome
    /\ calls' = calls + 1
    /\ UNCHANGED <<schema, strictIndex, consumed_args, ns_values, ns_types, made>>

\* the first parse() call on a newly built Parser
Parse ==
    /\ pc = "idle"
    /\ ParseCall(TokenLists(schema))


\* ---------------------------------------------------------- the token loop
\* Parser._pop_consumed_arg, from the indices pa and cons it is entered with:
\* a flag-style token removes itself (an alias also its canonical name) and
\* records the name; any other token removes the entry at `position`.
pop_consumed_arg(pa, cons, arg, token, pos) ==
    IF startswith(token, "-")
    THEN LET cons1 == Append(cons, Node[arg].name)
         IN  IF token = Node[arg].alias /\ ~DHas(pa, Node[arg].name)
             THEN [err |-> Raise("KeyError", Node[arg].name), pa |-> pa, cons |-> cons1]
             ELSE LET pa1 == IF token = Node[arg].alias THEN DPop(pa, Node[arg].name)
                             ELSE pa
                  IN  [err |-> NoErr, pa |-> DPop(pa1, token), cons |-> cons1]
    ELSE IF strictIndex /\ ~InRange(pa, pos)
         THEN [err |-> Raise("LookupError", token), pa |-> pa, cons |-> cons]
         ELSE [err |-> NoErr, pa |-> pop_from_index(pa, pos), cons |-> cons]

\* One iteration of the `while` of _parse_args for frame f, from its top to
\* the dispatch in _parse_tokens (the lookup of the node and its removal from
\* the index): the error raised, if any, the indices as left, the node.
Dispatch(f) ==
    LET token == f.tokens[f.i + 1]
        noLast == consumed_args = <<>> /\ ~InRange(parser_args, 0)
        last_consumed ==
            IF consumed_args # <<>> THEN consumed_args[Len(consumed_args)]
            ELSE get_key_from_index(parser_args, 0)
        noNext == ~InRange(positional_args, f.position)
        next_positional == get_key_from_index(positional_args, f.position)
        known == DHas(parser_args, token)
        cons1 == IF known THEN Append(consumed_args, token) ELSE consumed_args
        arg == DGet(parser_args, token)
        stop(e) == [err |-> e, pa |-> parser_args, cons |-> cons1, arg |-> ""]
    IN  CASE strictIndex /\ (noLast \/ noNext) ->
               stop(Raise("LookupError", NoneKey))
          [] ~(strictIndex /\ (noLast \/ noNext)) /\ ~known
             /\ (~DHas(parser_args, last_consumed) \/ ~DHas(parser_args, next_positional)) ->
               stop(Raise("LookupError",
                          IF ~DHas(parser_args, last_consumed) THEN last_consumed
                          ELSE next_positional))
          [] ~(strictIndex /\ (noLast \/ noNext)) /\ ~known
             /\ DHas(parser_args, last_consumed) /\ DHas(parser_args, next_positional)
             /\ position(parser_args, last_consumed)
                  > position(parser_args, next_positional) ->
               stop(UnknownArgumentError(token))
          [] ~(strictIndex /\ (noLast \/ noNext)) /\ ~known
             /\ DHas(parser_args, last_consumed) /\ DHas(parser_args, next_positional)
             /\ ~(position(parser_args, last_consumed)
                    > position(parser_args, next_positional)) ->
               stop(Raise("KeyError", token))
          [] OTHER ->
               IF DHas(recurring_data, token)
               THEN [err |-> NoErr, pa |-> parser_args, cons |-> cons1, arg |-> arg]
               ELSE LET p == pop_consumed_arg(parser_args, cons1, arg, token, f.position)
                    IN  [err |-> p.err, pa |-> p.pa, cons |-> p.cons, arg |-> arg]

\* _collect_argument_values with the type test dropped: every dash-prefixed
\* token ends the collection, for int and float too
RECURSIVE collect_argument_values_any_dash(_, _, _, _, _)
collect_argument_values_any_dash(i, arg, toks, total, values) ==
    IF /\ i < total
       /\ Len(values) < Node[arg].num_args[2]
       /\ ~startswith(toks[i + 1], "-")
    THEN collect_argument_values_any_dash(i + 1, arg, toks, total,
                                          Append(values, toks[i + 1]))
    ELSE [values |-> values, i |-> i]

\* Parser._collect_argument_values: the `while` from cursor i
RECURSIVE collect_argument_values(_, _, _, _, _)
collect_argument_values(i, arg, toks, total, values) ==
    IF /\ i < total
       /\ Len(values) < Node[arg].num_args[2]
       /\ ~(startswith(toks[i + 1], "-") /\ Node[arg].type \notin {"int", "float"})
    THEN collect_argument_values(i + 1, arg, toks, total, Append(values, toks[i + 1]))
    ELSE [values |-> values, i |-> i]

\* _validate_argument_count with the lower bound left unchecked
validate_argument_count_no_min(arg, values) ==
    IF Len(values) > Node[arg].num_args[2]
    THEN TooManyArgumentsError(Node[arg].name, Node[arg].num_args[2], Len(values))
    ELSE NoErr

\* Parser._validate_argument_count
validate_argument_count(arg, values) ==
    LET min_n == Node[arg].num_args[1]
        max_n == Node[arg].num_args[2]
        actual_n == Len(values)
    IN  IF actual_n < min_n THEN TooFewArgumentsError(Node[arg].name, min_n, actual_n)
        ELSE IF actual_n > max_n
             THEN TooManyArgumentsError(Node[arg].name, max_n, actual_n)
             ELSE NoErr

\* Parser._validate_choices
validate_choices(arg, converted) ==
    LET invalid == {converted[j] : j \in DOMAIN converted} \ Node[arg].choices
    IN  IF Node[arg].choices # {} /\ invalid # {}
        THEN InvalidChoiceError(Node[arg].name, invalid, Node[arg].choices)
        ELSE NoErr

\* Parser._consume_argument
consume_argument(i, arg, toks) ==
    LET c == collect_argument_values(i, arg, toks, Len(toks), <<>>)
        countErr == validate_argument_count(arg, c.values)
        bad == {j \in DOMAIN c.values : ~Convertible(Node[arg].type, c.values[j])}
        converted == [j \in DOMAIN c.values |-> Convert(Node[arg].type, c.values[j])]
        choiceErr == validate_choices(arg, converted)
        out(e) == [err |-> e, values |-> c.values, i |-> c.i,
                   results |-> <<[k |-> Node[arg].name, v |-> [vals |-> converted]]>>]
    IN  IF countErr # NoErr THEN out(countErr)
        ELSE IF bad # {}
             THEN out(Raise("ValueError", c.values[CHOOSE j \in bad : \A m \in bad : j <= m]))
             ELSE out(choiceErr)

\* for name, group in self._recurring_data.items(): result[name] = group
RECURSIVE recurring_overwrite(_, _)
recurring_overwrite(result, rec) ==
    IF rec = <<>> THEN result
    ELSE recurring_overwrite(DSet(result, Head(rec).k, [ref |-> Head(rec).v]), Tail(rec))

\* result.update(results); position += 1; the recurring lists are written in
Advance(f, results, i) ==
    [f EXCEPT !.i = i,
              !.position = f.position + 1,
              !.result = recurring_overwrite(DUpdate(f.result, results), recurring_data)]

\* an exception leaves parse(): nothing is returned
Abort(e) ==
    /\ pc' = "done"
    /\ stack' = <<>>
    /\ outcome' = [status |-> "error", stage |-> "matching", err |-> e,
                   result |-> <<>>, flat |-> <<>>]

\* An iteration whose token is not dispatched (an exception is raised before
\* or in the removal from the index) or is dispatched to an Argument.
Step ==
    /\ pc = "parsing"
    /\ iters < MaxIters
    /\ Top.i < Top.total
    /\ LET f == Top
           d == Dispatch(f)
       IN  /\ IF d.err # NoErr THEN TRUE ELSE Node[d.arg].kind = "Argument"
           /\ matched' = IF d.err # NoErr THEN matched
                         ELSE Append(matched, [token |-> f.tokens[f.i + 1], arg |-> d.arg,
                                               group |-> f.group])
           /\ parser_args' = d.pa
           /\ consumed_args' = d.cons
           /\ IF d.err # NoErr
              THEN /\ Abort(d.err)
                   /\ last' = [NoLast EXCEPT !.op = "raise", !.group = f.group,
                                             !.token = f.tokens[f.i + 1],
                                             !.toks = f.tokens, !.start = f.i]
              ELSE LET r == consume_argument(f.i + 1, d.arg, f.tokens)
                   IN  /\ last' = [op |-> "argument", group |-> f.group,
                                   token |-> f.tokens[f.i + 1], arg |-> d.arg,
                                   toks |-> f.tokens, start |-> f.i + 1,
                                   values |-> r.values, cursor |-> r.i]
                       /\ IF r.err # NoErr
                          THEN Abort(r.err)
                          ELSE /\ stack' = [stack EXCEPT ![Len(stack)] =
                                              Advance(f, r.results, r.i)]
                               /\ UNCHANGED <<pc, outcome>>
    /\ iters' = iters + 1
    /\ UNCHANGED <<schema, strictIndex, positional_args, recurring_data, heap,
                   ns_values, ns_types, tokens, calls, made>>

\* An iteration whose token is dispatched to an ArgumentGroup: _consume_group
\* calls _parse_args(arg, tokens[i:]), whose prologue indexes the group's
\* children and resets the lists of its Recurring children.
Enter ==
    /\ pc = "parsing"
    /\ iters < MaxIters
    /\ Top.i < Top.total
    /\ LET f == Top
           d == Dispatch(f)
       IN  /\ d.err = NoErr
           /\ Node[d.arg].kind = "ArgumentGroup"
           /\ LET ix == index_parser_args(d.pa, positional_args, Children(d.arg))
                  ru == recurring_update(recurring_data, heap, Children(d.arg))
              IN  /\ parser_args' = ix.pa
                  /\ positional_args' = ix.pos
                  /\ recurring_data' = ru.rec
                  /\ heap' = ru.heap
           /\ consumed_args' = d.cons
           /\ matched' = Append(matched, [token |-> f.tokens[f.i + 1], arg |-> d.arg,
                                          group |-> f.group])
           /\ stack' = Append(stack, Frame(d.arg, SubSeq(f.tokens, f.i + 2, Len(f.tokens))))
           /\ last' = [NoLast EXCEPT !.op = "group", !.group = f.group,
                                     !.token = f.tokens[f.i + 1],
                                     !.arg = d.arg, !.toks = f.tokens, !.start = f.i + 1]
    /\ iters' = iters + 1
    /\ UNCHANGED <<schema, strictIndex, ns_values, ns_types, pc, tokens, outcome,
                   calls, made>>

\* A nested _parse_args returns (result, i): _consume_group files the result
\* and the caller's iteration ends with the cursor the nested call returned.
Return ==
    /\ pc = "parsing"
    /\ Len(stack) > 1
    /\ Top.i >= Top.total
    /\ LET callee == Top
           caller == stack[Len(stack) - 1]
           name == Node[callee.group].name
           recurring == DHas(recurring_data, name)
           hp == IF recurring
                 THEN [heap EXCEPT ![DGet(recurring_data, name)] = Append(@, callee.result)]
                 ELSE heap
           results == IF recurring THEN <<>>
                      ELSE <<[k |-> name, v |-> [map |-> callee.result]]>>
       IN  /\ heap' = hp
           /\ stack' = [SubSeq(stack, 1, Len(stack) - 1) EXCEPT ![Len(stack) - 1] =
                          Advance(caller, results, callee.i)]
           /\ last' = [NoLast EXCEPT !.op = "return", !.group = caller.group,
                                     !.arg = callee.group,
                                     !.toks = caller.tokens, !.start = caller.i,
                                     !.cursor = callee.i]
    /\ UNCHANGED <<schema, strictIndex, parser_args, positional_args, recurring_data,
                   consumed_args, ns_values, ns_types, pc, tokens, iters, matched, outcome,
                   calls, made>>


\* ------------------------------------------------- validation and flattening
\* key == obj for a key of a result dict (a str) and a declared node (an
\* AshParser object, which defines neither __eq__ nor __hash__)
str_eq_object(key, obj) == FALSE

\* `arg in result`, as _validate_mutually_exclusive_arguments and
\* _validate_conditional_arguments write it: the node itself is looked up
object_in_result(obj, result) ==
    \E j \in DOMAIN result : str_eq_object(result[j].k, obj)

\* the first exception, in order, of a sequence of checks
RECURSIVE FirstErr(_)
FirstErr(errs) ==
    IF errs = <<>> THEN NoErr
    ELSE IF Head(errs) # NoErr THEN Head(errs) ELSE FirstErr(Tail(errs))

\* Parser._validate_mutually_exclusive_arguments
validate_mutually_exclusive_arguments(result) ==
    LET root == Children("root")
        check(g) ==
            IF Node[g].kind # "ArgumentGroup"
               \/ Node[g].group_type # "mutually_exclusive_group"
            THEN NoErr
            ELSE LET present == SelectSeq(Node[g].arguments,
                                          LAMBDA a : object_in_result(a, result))
                     used == [j \in DOMAIN present |-> Node[present[j]].name]
                 IN  IF Len(used) > 1 THEN MutuallyExclusiveArgumentsError(used)
                     ELSE NoErr
    IN  FirstErr([j \in DOMAIN root |-> check(root[j])])

\* Parser._validate_first_present_rest_required
validate_first_present_rest_required(conditional, dep, cond_present, dep_present) ==
    IF cond_present /\ ~dep_present
    THEN ConditionalDependencyError(Node[dep].name, Node[conditional].name,
                                    "is required when")
    ELSE NoErr

\* Parser._validate_first_absent_rest_forbidden
validate_first_absent_rest_forbidden(conditional, dep, cond_present, dep_present) ==
    IF ~cond_present /\ dep_present
    THEN ConditionalDependencyError(Node[dep].name, Node[conditional].name,
                                    "is forbidden when")
    ELSE NoErr

\* Parser._validate_conditional_arguments
validate_conditional_arguments(result) ==
    LET root == Children("root")
        check(g) ==
            IF Node[g].kind # "ArgumentGroup" \/ Node[g].group_type # "conditional_group"
            THEN NoErr
            ELSE IF Node[g].subtype = "" THEN Raise("NotImplementedError", Node[g].name)
            ELSE IF Node[g].arguments = <<>> THEN Raise("IndexError", Node[g].name)
            ELSE LET conditional == Head(Node[g].arguments)
                     cond_present == object_in_result(conditional, result)
                     dependents == Tail(Node[g].arguments)
                     one(dep) ==
                         LET dep_present == object_in_result(dep, result)
                         IN  IF Node[g].subtype = "first_present_rest_required"
                             THEN validate_first_present_rest_required(
                                      conditional, dep, cond_present, dep_present)
                             ELSE validate_first_absent_rest_forbidden(
                                      conditional, dep, cond_present, dep_present)
                 IN  FirstErr([j \in DOMAIN dependents |-> one(dependents[j])])
    IN  FirstErr([j \in DOMAIN root |-> check(root[j])])

\* _flatten_result without the splice: a nested result is filed under the
\* name of its group like any other value
RECURSIVE flatten_result_no_splice(_, _)
flatten_result_no_splice(flat_result, result) ==
    IF result = <<>> THEN flat_result
    ELSE flatten_result_no_splice(DSet(flat_result, Head(result).k, Head(result).v),
                                  Tail(result))

\* Parser._flatten_result
RECURSIVE flatten_result(_, _)
flatten_result(flat_result, result) ==
    IF result = <<>> THEN flat_result
    ELSE LET name == Head(result).k
             value == Head(result).v
         IN  IF ~DHas(recurring_data, name) /\ "map" \in DOMAIN value
             THEN flatten_result(DUpdate(flat_result, value.map), Tail(result))
             ELSE flatten_result(DSet(flat_result, name, value), Tail(result))

\* _validate_required_arguments without the test of arg.required
validate_required_arguments_any_child(result) ==
    LET root == Children("root")
        check(a) == IF ~DHas(result, Node[a].name)
                    THEN MissingRequiredArgumentError(Node[a].name)
                    ELSE NoErr
    IN  FirstErr([j \in DOMAIN root |-> check(root[j])])

\* Parser._validate_required_arguments
validate_required_arguments(result) ==
    LET root == Children("root")
        check(a) == IF Node[a].required /\ ~DHas(result, Node[a].name)
                    THEN MissingRequiredArgumentError(Node[a].name)
                    ELSE NoErr
    IN  FirstErr([j \in DOMAIN root |-> check(root[j])])

\* Names.__getattr__(key), reached by parse() as self._namespace.values: an
\* attribute that is no field of Names is looked up among the stored values
names_getattr(values, key) ==
    IF DHas(values, key) THEN NoErr ELSE Raise("AttributeError", key)

\* the loop that ends parse(): every root child found in the flattened result
\* is stored by self._namespace.values[arg.name] = flattened[arg.name], an
\* item assignment on whatever the namespace holds under the name "values"
RECURSIVE store_values(_, _, _)
store_values(values, flattened, nodes) ==
    IF nodes = <<>> THEN [err |-> NoErr, values |-> values]
    ELSE LET a == Node[Head(nodes)]
         IN  IF DHas(flattened, a.name)
             THEN IF names_getattr(values, "values") # NoErr
                  THEN [err |-> names_getattr(values, "values"), values |-> values]
                  ELSE IF "map" \notin DOMAIN DGet(values, "values")
                  THEN [err |-> Raise("TypeError", a.name), values |-> values]
                  ELSE store_values(
                           DSet(values, "values",
                                [map |-> DSet(DGet(values, "values").map, a.name,
                                              DGet(flattened, a.name))]),
                           flattened, Tail(nodes))
             ELSE IF a.required
                  THEN [err |-> MissingRequiredArgumentError(a.name), values |-> values]
                  ELSE store_values(values, flattened, Tail(nodes))

\* parse() with the storing loop moved in front of the validations
finish_store_first(result) ==
    LET flattened == flatten_result(<<>>, result)
        st == store_values(ns_values, flattened, Children("root"))
        e == FirstErr(<<st.err,
                        validate_mutually_exclusive_arguments(result),
                        validate_conditional_arguments(result),
                        validate_required_arguments(flattened)>>)
    IN  [err |-> e, values |-> st.values, flat |-> flattened]

\* parse() after _parse_args has returned: validate, flatten, validate, store
finish(result) ==
    LET flattened == flatten_result(<<>>, result)
        e == FirstErr(<<validate_mutually_exclusive_arguments(result),
                        validate_conditional_arguments(result),
                        validate_required_arguments(flattened)>>)
        st == store_values(ns_values, flattened, Children("root"))
    IN  IF e # NoErr THEN [err |-> e, values |-> ns_values, flat |-> flattened]
        ELSE [err |-> st.err, values |-> st.values, flat |-> flattened]

\* The root _parse_args has returned: parse() validates, flattens, validates
\* and stores, and returns the namespace.
Finish ==
    /\ pc = "parsing"
    /\ Len(stack) = 1
    /\ Top.i >= Top.total
    /\ \E f \in {finish(Top.result)} :
           /\ outcome' = [status |-> IF f.err = NoErr THEN "ok" ELSE "error",
                          stage |-> "validation", err |-> f.err,
                          result |-> Top.result, flat |-> f.flat]
           /\ ns_values' = f.values
    /\ pc' = "done"
    /\ stack' = <<>>
    /\ UNCHANGED <<schema, strictIndex, parser_args, positional_args, recurring_data,
                   heap, consumed_args, ns_types, tokens, iters, last, matched,
                   calls, made>>

Next == Parse \/ Step \/ Enter \/ Return \/ Finish

Spec == Init /\ [][Next]_vars

\* ------------------------------------------- several parse() calls on a Parser
ShortLists(s) == UNION {[1..n -> Alphabet(s)] : n \in 0..MaxReuseLen}

\* parse(args), on a Parser that is new or whose earlier call has ended
Call ==
    /\ pc \in {"idle", "done"}
    /\ calls < MaxCalls
    /\ ParseCall(ShortLists(schema))

NextReuse == Call \/ Step \/ Enter \/ Return \/ Finish

SpecReuse == Init /\ [][NextReuse]_vars

\* --------------------------------------------------- Argument(name, ...)
\* An object under construction: its attributes, and in attrs the names of
\* those that have been assigned so far (reading any other raises
\* AttributeError).  A keyword argument is None (NoneV), a string StrV(s), an
\* integer IntV(n), or a list [list |-> <<...>>]; self.choices, once
\* converted, is [set |-> S].
NewObject ==
    [attrs |-> {}, name |-> "", alias |-> NoneV, help |-> NoneV, type |-> "",
     required |-> FALSE, positional |-> FALSE, default |-> NoneV, descriptor |-> NoneV,
     _num_args |-> NoneV, choices |-> NoneV, _min |-> NoneV, _max |-> NoneV,
     num_args |-> <<1, 1>>]

ArgumentError(msg) == Raise("ArgumentError", msg)
InvalidValueError(value, arg_name, reason) ==
    [Raise("InvalidValueError", arg_name) EXCEPT !.value = {value}, !.rel = reason]
InvalidAliasError(alias) == Raise("InvalidAliasError", alias)

\* the spellings of names and aliases given to the constructor
NameWords == {"foo", "--foo", "-f"}
AliasWords == {"", "f", "-f", "fg", "-1", "foo"}
len(word) == CASE word = "" -> 0
               [] word = "f" -> 1
               [] word \in {"-f", "fg", "-1"} -> 2
               [] OTHER -> 3
isalpha_last(word) == word \in {"f", "-f", "fg", "foo", "--foo"}

\* bool(x) for an int or None: `not self._min`
Falsy(v) == v = NoneV \/ v = IntV(0)

Range(lo, hi) == {n \in lo..hi : TRUE}

\* AshParser._post_init
AshParser_post_init(o) ==
    [err |-> NoErr,
     obj |-> IF ~startswith(o.name, "--") THEN [o EXCEPT !.positional = TRUE] ELSE o]

\* Argument._parse_num_args
parse_num_args(o, num_args_value) ==
    [o EXCEPT !.num_args = CASE num_args_value = "*" -> <<0, maxsize>>
                             [] num_args_value = "+" -> <<1, maxsize>>
                             [] num_args_value = "?" -> <<0, 1>>]

\* Argument._post_init, in three parts; each reads attributes of self and
\* fails with AttributeError when one has not been assigned yet.
\* the arity bounds
post_init_num_args(o) ==
    IF "_num_args" \notin o.attrs
    THEN [err |-> Raise("AttributeError", "_num_args"), obj |-> o]
    ELSE IF o._num_args = NoneV
    THEN [err |-> NoErr, obj |-> [o EXCEPT !.num_args = <<1, 1>>]]
    ELSE IF o._num_args \in {StrV("*"), StrV("+"), StrV("?")}
    THEN [err |-> NoErr, obj |-> parse_num_args(o, o._num_args.str)]
    ELSE IF "int" \notin DOMAIN o._num_args
    THEN [err |-> ArgumentTypeError(o._num_args, "int"), obj |-> o]
    ELSE IF o._num_args.int < 0
    THEN [err |-> InvalidValueError(o._num_args, "num_args", "cannot be negative"),
          obj |-> o]
    ELSE [err |-> NoErr, obj |-> [o EXCEPT !.num_args = <<o._num_args.int, o._num_args.int>>]]

\* required against default, and choices made a set
post_init_choices(o) ==
    IF o.required /\ "default" \notin o.attrs
    THEN [err |-> Raise("AttributeError", "default"), obj |-> o]
    ELSE IF o.required /\ o.default # NoneV
    THEN [err |-> ArgumentError("Cannot specify both required and a default value"),
          obj |-> o]
    ELSE IF "choices" \notin o.attrs
    THEN [err |-> Raise("AttributeError", "choices"), obj |-> o]
    ELSE IF o.choices # NoneV
    THEN [err |-> NoErr,
          obj |-> [o EXCEPT !.choices =
                      [set |-> {o.choices.list[j] : j \in DOMAIN o.choices.list}]]]
    ELSE [err |-> NoErr, obj |-> o]

\* the numeric range and the form of the name; a range that reaches
\* -sys.maxsize or sys.maxsize cannot be built as a set (MemoryError)
post_init_range(o) ==
    LET named(p) ==
            IF startswith(p.name, "-") /\ ~startswith(p.name, "--")
            THEN [err |-> ArgumentError("Argument names must start with two or zero dashes"),
                  obj |-> p]
            ELSE [err |-> NoErr, obj |-> p]
    IN  IF o.type \notin {"int", "float"} THEN named(o)
        ELSE IF "_min" \notin o.attrs
        THEN [err |-> Raise("AttributeError", "_min"), obj |-> o]
        ELSE IF o._min = NoneV /\ "_max" \notin o.attrs
        THEN [err |-> Raise("AttributeError", "_max"), obj |-> o]
        ELSE IF o._min = NoneV /\ o._max = NoneV THEN named(o)
        ELSE LET lo == IF Falsy(o._min) THEN IntV(0 - maxsize) ELSE o._min
                 hi == IF Falsy(o._max) THEN IntV(maxsize) ELSE o._max
                 p == [o EXCEPT !._min = lo, !._max = hi]
             IN  IF lo.int > hi.int
                 THEN [err |-> ArgumentError("Min must be less than max"), obj |-> p]
                 ELSE IF o.choices # NoneV
                 THEN [err |-> MutuallyExclusiveArgumentsError(<<"range", "choices">>),
                       obj |-> p]
                 ELSE IF lo.int = 0 - maxsize \/ hi.int = maxsize
                 THEN [err |-> Raise("MemoryError", "choices"), obj |-> p]
                 ELSE named([p EXCEPT !.choices = [set |-> Range(lo.int, hi.int)]])

\* Argument._post_init
Argument_post_init(o) ==
    LET a == post_init_num_args(o)
        b == post_init_choices(a.obj)
    IN  IF a.err # NoErr THEN a
        ELSE IF b.err # NoErr THEN b
        ELSE post_init_range(b.obj)

\* f"-{self.alias}" for a one-character alias
dashed(alias) == CASE alias = "f" -> "-f"

\* AshParser.validate_alias: self.alias[-1] of an empty alias is an IndexError
validate_alias(o) ==
    IF o.alias = NoneV THEN [err |-> NoErr, obj |-> o]
    ELSE LET alias == o.alias.str
         IN  IF len(alias) = 0
             THEN [err |-> Raise("IndexError", alias), obj |-> o]
             ELSE IF \/ len(alias) > 2
                     \/ (len(alias) = 2 /\ ~startswith(alias, "-"))
                     \/ ~isalpha_last(alias)
             THEN [err |-> InvalidAliasError(alias), obj |-> o]
             ELSE IF len(alias) = 1
             THEN [err |-> NoErr, obj |-> [o EXCEPT !.alias = StrV(dashed(alias))]]
             ELSE [err |-> NoErr, obj |-> o]

\* AshParser.__init__(self, name, alias=, help=, required=) for an object of
\* class cls: self._post_init() is the method of the object's own class
AshParser_init(o, cls, name, alias, required) ==
    LET o1 == [o EXCEPT !.name = name, !.alias = alias, !.help = NoneV, !.type = cls,
                        !.required = required, !.positional = FALSE,
                        !.attrs = @ \cup {"name", "alias", "help", "type", "required",
                                          "positional"}]
        p == IF cls = "Argument" THEN Argument_post_init(o1) ELSE AshParser_post_init(o1)
    IN  IF p.err # NoErr THEN p ELSE validate_alias(p.obj)

\* Argument.__init__(name, type=, alias=, default=, num_args=, required=,
\* choices=, min=, max=)
Argument_init(a) ==
    LET b == AshParser_init(NewObject, "Argument", a.name, a.alias, FALSE)
        o2 == [b.obj EXCEPT !.type = a.type, !.default = a.default, !.descriptor = NoneV,
                            !._num_args = a.num_args, !.required = a.required,
                            !.choices = a.choices, !._min = a.min, !._max = a.max,
                            !.num_args = <<1, 1>>,
                            !.attrs = @ \cup {"default", "descriptor", "_num_args",
                                              "choices", "_min", "_max", "num_args"}]
    IN  IF b.err # NoErr THEN b ELSE Argument_post_init(o2)

\* ArgumentGroup.__init__(namespace, name, alias=, required=, group_type=)
ArgumentGroup_init(a) ==
    AshParser_init(NewObject, "ArgumentGroup", a.name, a.alias, a.required)

\* the keyword arguments tried
Ints == {IntV(n) : n \in (0 - MaxInt)..MaxInt}
ChoiceLists == {NoneV, [list |-> <<>>], [list |-> <<1, 2, 3>>]}
ConstructorCalls ==
    [name : NameWords, alias : {NoneV, StrV("f")}, type : {"int", "float", "str"},
     default : {NoneV, IntV(1)},
     num_args : {NoneV, StrV("?"), StrV("*"), StrV("+"), StrV("x")} \cup Ints,
     required : BOOLEAN, choices : ChoiceLists,
     min : {NoneV} \cup Ints, max : {NoneV} \cup Ints]
GroupCalls ==
    [name : NameWords, alias : {NoneV} \cup {StrV(w) : w \in AliasWords},
     required : BOOLEAN]

InitArgument ==
    /\ schema = "count"
    /\ strictIndex = TRUE
    /\ parser_args = <<>>
    /\ positional_args = <<>>
    /\ recurring_data = <<>>
    /\ heap = <<>>
    /\ consumed_args = <<>>
    /\ ns_values = <<>>
    /\ ns_types = <<>>
    /\ pc = "new"
    /\ tokens = <<>>
    /\ stack = <<>>
    /\ iters = 0
    /\ last = NoLast
    /\ matched = <<>>
    /\ outcome = NoOutcome
    /\ calls = 0
    /\ \E a \in ConstructorCalls \cup GroupCalls :
           made = [status |-> "called", args |-> a]

\* arg = Argument(name, type=..., ...), as AddMixin._add_argument_to calls it
Construct ==
    /\ pc = "new"
    /\ made.args \in ConstructorCalls
    /\ LET c == Argument_init(made.args)
       IN  made' = [status |-> IF c.err = NoErr THEN "ok" ELSE "error",
                    args |-> made.args, err |-> c.err, obj |-> c.obj]
    /\ pc' = "made"
    /\ UNCHANGED <<schema, strictIndex, parser_args, positional_args, recurring_data,
                   heap, consumed_args, ns_values, ns_types, tokens, stack, iters, last,
                   matched, outcome, calls>>

\* group = ArgumentGroup(namespace, name, ...), as ArgumentGroup.add_group
\* calls it
ConstructGroup ==
    /\ pc = "new"
    /\ made.args \in GroupCalls
    /\ LET c == ArgumentGroup_init(made.args)
       IN  made' = [status |-> IF c.err = NoErr THEN "ok" ELSE "error",
                    args |-> made.args, err |-> c.err, obj |-> c.obj]
    /\ pc' = "made"
    /\ UNCHANGED <<schema, strictIndex, parser_args, positional_args, recurring_data,
                   heap, consumed_args, ns_values, ns_types, tokens, stack, iters, last,
                   matched, outcome, calls>>

NextArgument == Construct \/ ConstructGroup

SpecArgument == InitArgument /\ [][NextArgument]_vars

\* ------------------------------------------------------------------ Names
\* A Names object on its own: set_type, names[key] = value and names[key],
\* in any order.  made records the last operation: its key, the value passed
\* or returned, and the exception raised.
MaxOps == 3

NameKeys == {"--count", "--job"}
\* the classes add_argument declares, and "tuple": the parameterized generic
\* tuple[...] that ArgumentGroup._set_type builds for a recurring group
DeclaredTypes == {"int", "str", "bool", "tuple"}
StoredValues == {IntV(1), StrV("a"), BoolV(TRUE), NoneV, [tuple |-> <<>>]}

\* isinstance(value, typ): a bool is an int; a parameterized generic as the
\* second argument is a TypeError
isinstance(value, typ) ==
    CASE typ = "tuple" -> [err |-> Raise("TypeError", "isinstance"), is |-> FALSE]
      [] typ = "int" -> [err |-> NoErr, is |-> DOMAIN value \subseteq {"int", "bool"}]
      [] typ = "float" -> [err |-> NoErr, is |-> "float" \in DOMAIN value]
      [] typ = "bool" -> [err |-> NoErr, is |-> "bool" \in DOMAIN value]
      [] typ = "str" -> [err |-> NoErr, is |-> "str" \in DOMAIN value]
      [] OTHER -> [err |-> NoErr, is |-> FALSE]

\* the test both item methods make:
\* key in self._types and not isinstance(value, self._types[key])
names_check(types, key, value) ==
    IF ~DHas(types, key) THEN NoErr
    ELSE LET t == isinstance(value, DGet(types, key))
         IN  IF t.err # NoErr THEN t.err
             ELSE IF ~t.is THEN ArgumentTypeError(value, DGet(types, key))
             ELSE NoErr

\* Names.__setitem__
names_setitem(values, types, key, value) ==
    LET e == names_check(types, key, value)
    IN  [err |-> e, values |-> IF e = NoErr THEN DSet(values, key, value) ELSE values]

\* Names.__getitem__
names_getitem(values, types, key) ==
    IF ~DHas(values, key) THEN [err |-> Raise("KeyError", key), value |-> NoneV]
    ELSE LET e == names_check(types, key, DGet(values, key))
         IN  [err |-> e, value |-> IF e = NoErr THEN DGet(values, key) ELSE NoneV]

NoOp == [status |-> "none", op |-> "none", key |-> "", value |-> NoneV, err |-> NoErr]

\* Names()
InitNames ==
    /\ schema = "count"
    /\ strictIndex = TRUE
    /\ parser_args = <<>>
    /\ positional_args = <<>>
    /\ recurring_data = <<>>
    /\ heap = <<>>
    /\ consumed_args = <<>>
    /\ ns_values = <<>>
    /\ ns_types = <<>>
    /\ pc = "names"
    /\ tokens = <<>>
    /\ stack = <<>>
    /\ iters = 0
    /\ last = NoLast
    /\ matched = <<>>
    /\ outcome = NoOutcome
    /\ calls = 0
    /\ made = NoOp

\* names.set_type(name, typ)
SetType ==
    /\ pc = "names"
    /\ calls < MaxOps
    /\ \E name \in NameKeys, typ \in DeclaredTypes :
         /\ ns_types' = DSet(ns_types, name, typ)
         /\ made' = [status |-> "ok", op |-> "set_type", key |-> name,
                     value |-> StrV(typ), err |-> NoErr]
    /\ calls' = calls + 1
    /\ UNCHANGED <<schema, strictIndex, parser_args, positional_args, recurring_data,
                   heap, consumed_args, ns_values, pc, tokens, stack, iters, last,
                   matched, outcome>>

\* names[key] = value
SetItem ==
    /\ pc = "names"
    /\ calls < MaxOps
    /\ \E key \in NameKeys, value \in StoredValues :
         \E r \in {names_setitem(ns_values, ns_types, key, value)} :
           /\ ns_values' = r.values
           /\ made' = [status |-> IF r.err = NoErr THEN "ok" ELSE "error",
                       op |-> "setitem", key |-> key, value |-> value, err |-> r.err]
    /\ calls' = calls + 1
    /\ UNCHANGED <<schema, strictIndex, parser_args, positional_args, recurring_data,
                   heap, consumed_args, ns_types, pc, tokens, stack, iters, last,
                   matched, outcome>>

\* names[key]
GetItem ==
    /\ pc = "names"
    /\ calls < MaxOps
    /\ \E key \in NameKeys :
         \E r \in {names_getitem(ns_values, ns_types, key)} :
           made' = [status |-> IF r.err = NoErr THEN "ok" ELSE "error",
                    op |-> "getitem", key |-> key, value |-> r.value, err |-> r.err]
    /\ calls' = calls + 1
    /\ UNCHANGED <<schema, strictIndex, parser_args, positional_args, recurring_data,
                   heap, consumed_args, ns_values, ns_types, pc, tokens, stack, iters,
                   last, matched, outcome>>

NextNames == SetType \/ SetItem \/ GetItem

SpecNames == InitNames /\ [][NextNames]_vars

\* ------------------------------------------------ _flatten_result on its own
\* The result maps _parse_args builds for a root group with the arguments
\* --x and --y, a plain group g that declares --x and --y too, and the
\* Recurring group --job: a list of values under an argument's name, the
\* nested result under g, the list object under --job.
ValueLists == {[vals |-> <<StrV("1")>>], [vals |-> <<StrV("2")>>]}

DistinctKeys(d) == \A j, m \in DOMAIN d : d[j].k = d[m].k => j = m

NestedResults ==
    {d \in UNION {[1..n -> [k : {"--x", "--y"}, v : ValueLists]] : n \in 0..2} :
        DistinctKeys(d)}

ResultEntries ==
    [k : {"--x", "--y"}, v : ValueLists]
        \cup [k : {"g"}, v : {[map |-> d] : d \in NestedResults}]
        \cup [k : {"--job"}, v : {[ref |-> 1]}]

ResultMaps ==
    {d \in UNION {[1..n -> ResultEntries] : n \in 0..MaxEntries} : DistinctKeys(d)}

InitFlatten ==
    /\ schema = "job"
    /\ strictIndex \in BOOLEAN
    /\ parser_args = <<>>
    /\ positional_args = <<>>
    /\ recurring_data = <<[k |-> "--job", v |-> 1]>>
    /\ heap = << <<>> >>
    /\ consumed_args = <<>>
    /\ LET ns == Declare([values |-> <<>>, types |-> <<>>], RootArguments(schema))
       IN  ns_values = ns.values /\ ns_types = ns.types
    /\ pc = "flatten"
    /\ tokens = <<>>
    /\ stack = <<>>
    /\ iters = 0
    /\ last = NoLast
    /\ matched = <<>>
    /\ \E d \in ResultMaps : outcome = [NoOutcome EXCEPT !.result = d]
    /\ calls = 0
    /\ made = NoMade

\* flattened = self._flatten_result(result)
Flatten ==
    /\ pc = "flatten"
    /\ pc' = "flattened"
    /\ outcome' = [outcome EXCEPT !.stage = "flatten",
                                  !.flat = flatten_result(<<>>, outcome.result)]
    /\ UNCHANGED <<schema, strictIndex, parser_args, positional_args, recurring_data,
                   heap, consumed_args, ns_values, ns_types, tokens, stack, iters, last,
                   matched, calls, made>>

NextFlatten == Flatten

SpecFlatten == InitFlatten /\ [][NextFlatten]_vars

\* ------------------------------------- parse() after the root _parse_args
\* The validations and the storing loop of parse(), applied to the results a
\* root _parse_args call hands back on schema needs: a required plain group
\* grp declaring --count, and a required --req.
CountLists == {[vals |-> <<IntV(1)>>], [vals |-> <<IntV(5)>>]}
GroupResults == {<<>>} \cup {<<[k |-> "--count", v |-> c]>> : c \in CountLists}
ReturnedEntries ==
    [k : {"grp"}, v : {[map |-> d] : d \in GroupResults}]
        \cup [k : {"--req"}, v : {[vals |-> <<StrV("a")>>], [vals |-> <<>>]}]
        \cup [k : {"--count"}, v : CountLists]
ReturnedResults ==
    {d \in UNION {[1..n -> ReturnedEntries] : n \in 0..MaxEntries} : DistinctKeys(d)}

InitReturned ==
    /\ schema = "needs"
    /\ strictIndex \in BOOLEAN
    /\ parser_args = <<>>
    /\ positional_args = <<>>
    /\ recurring_data = <<>>
    /\ heap = <<>>
    /\ consumed_args = <<>>
    /\ LET ns == Declare([values |-> <<>>, types |-> <<>>], RootArguments(schema))
       IN  ns_values = ns.values /\ ns_types = ns.types
    /\ pc = "parsing"
    /\ tokens = <<>>
    /\ \E d \in ReturnedResults : stack = <<[Frame("root", <<>>) EXCEPT !.result = d]>>
    /\ iters = 0
    /\ last = NoLast
    /\ matched = <<>>
    /\ outcome = NoOutcome
    /\ calls = 1
    /\ made = NoMade

NextReturned == Finish

SpecReturned == InitReturned /\ [][NextReturned]_vars


\* ================================================================== claims
Done == pc = "done"
Validated == pc = "done" /\ outcome.stage = "validation"
Returned == pc = "done" /\ outcome.status = "ok"
NsIs(key, val) == DHas(ns_values, key) /\ DGet(ns_values, key) = val
MatchedArgs == {matched[j].arg : j \in DOMAIN matched}
Occurrences(tok) == Cardinality({j \in DOMAIN tokens : tokens[j] = tok})

\* C1: with a required str positional `input` and an optional int `--count`
\* (alias -c, default 1), parse(["file.txt"]) returns input = "file.txt" and
\* count = 1, and parse(["file.txt", "-c", "5"]) returns input = "file.txt"
\* and count = 5.
C1_ScenarioPositionalAliasDefault ==
    (Done /\ schema = "count") =>
        /\ tokens = <<"file.txt">> =>
             /\ Returned
             /\ NsIs("input", StrV("file.txt"))
             /\ NsIs("--count", IntV(1))
        /\ tokens = <<"file.txt", "-c", "5">> =>
             /\ Returned
             /\ NsIs("input", StrV("file.txt"))
             /\ NsIs("--count", IntV(5))

\* C2: whenever a required child of the root is absent from the flattened
\* result, parse() fails with MissingRequiredArgumentError carrying the name
\* of such a child; tokens ["-c", "5"] fail with
\* MissingRequiredArgumentError("input").
MissingRequired(flat) ==
    {a \in {Children("root")[j] : j \in DOMAIN Children("root")} :
        Node[a].required /\ Node[a].name \notin DKeys(flat)}

C2_MissingRequiredReported ==
    /\ Validated =>
         /\ MissingRequired(outcome.flat) # {} =>
              /\ outcome.status = "error"
              /\ outcome.err.type = "MissingRequiredArgumentError"
              /\ outcome.err.name \in {Node[a].name : a \in MissingRequired(outcome.flat)}
         /\ outcome.err.type = "MissingRequiredArgumentError" =>
              outcome.err.name \in {Node[a].name : a \in MissingRequired(outcome.flat)}
    /\ (Done /\ schema = "count" /\ tokens = <<"-c", "5">>) =>
         outcome.err = MissingRequiredArgumentError("input")

C2_Witness ==
    /\ Validated
    /\ schema = "count"
    /\ tokens = <<"-c", "5">>
    /\ DKeys(outcome.flat) = {"--count"}
    /\ outcome.err = MissingRequiredArgumentError("input")

\* C3: when more than one member of a MutuallyExclusive group is given in
\* the token list, parse() fails with MutuallyExclusiveArgumentsError listing
\* the present names (group {--json, --xml}, tokens --json true --xml true,
\* with or without the token of the group in front).
C3_MutuallyExclusiveRejected ==
    (Done /\ schema = "output"
          /\ tokens \in {<<"--json", "true", "--xml", "true">>,
                         <<"output", "--json", "true", "--xml", "true">>}) =>
        outcome.err = MutuallyExclusiveArgumentsError(<<"--json", "--xml">>)

\* C4: in a Conditional group with relation first-present-rest-required,
\* when the condition (first child) is given and a dependent is not, parse()
\* fails with ConditionalDependencyError naming the dependent and the
\* condition (children [--use-db, --db-name], tokens --use-db true).
C4_FirstPresentRestRequired ==
    (Done /\ schema = "db"
          /\ tokens \in {<<"--use-db", "true">>, <<"db", "--use-db", "true">>}) =>
        /\ outcome.err.type = "ConditionalDependencyError"
        /\ outcome.err.name = "--db-name"
        /\ outcome.err.cond = "--use-db"

\* C5: in a Conditional group with relation first-absent-rest-forbidden,
\* when the condition (first child) is not given and a dependent is, parse()
\* fails with ConditionalDependencyError naming the dependent and the
\* condition.
C5_FirstAbsentRestForbidden ==
    (Done /\ schema = "dbf"
          /\ tokens \in {<<"--db-name", "true">>, <<"db", "--db-name", "true">>}) =>
        /\ outcome.err.type = "ConditionalDependencyError"
        /\ outcome.err.name = "--db-name"
        /\ outcome.err.cond = "--use-db"

\* C6: each occurrence of the token of a Recurring group appends exactly one
\* nested result map to the group's list, and the instance holds the values
\* given after it: --job build 120 gives job = [{name: build, duration: 120}].
JobList == IF DHas(recurring_data, "--job") THEN heap[DGet(recurring_data, "--job")]
           ELSE <<>>

C6_RecurringInstances ==
    schema = "job" =>
        /\ Len(JobList) <= Occurrences("--job")
        /\ (Done /\ tokens = <<"--job", "build", "120">>) =>
             /\ Returned
             /\ JobList = << <<[k |-> "name", v |-> [vals |-> <<StrV("build")>>]],
                              [k |-> "duration", v |-> [vals |-> <<IntV(120)>>]]>> >>

\* C7: for every token list, the empty one included, the result map that the
\* root parse call returns maps the name of every declared Recurring child to
\* a list.
C7_RecurringAlwaysPresent ==
    Validated =>
        \A j \in DOMAIN Children("root") :
            LET g == Node[Children("root")[j]]
            IN  (g.kind = "ArgumentGroup" /\ g.group_type = "recurring_group") =>
                    /\ DHas(outcome.result, g.name)
                    /\ "ref" \in DOMAIN DGet(outcome.result, g.name)

\* C8: a token that is no declared name or alias of the current group, met
\* in a group that declares no positional child, makes parse() fail with
\* UnknownArgumentError carrying the token.
GroupWords(g) ==
    {Node[Children(g)[j]].name : j \in DOMAIN Children(g)}
        \cup {Node[Children(g)[j]].alias : j \in DOMAIN Children(g)}
HasPositional(g) ==
    \E j \in DOMAIN Children(g) : ~startswith(Node[Children(g)[j]].name, "--")

C8_UnknownTokenReported ==
    (Done /\ last.op = "raise" /\ last.token \notin GroupWords(last.group)
          /\ ~HasPositional(last.group)) =>
        outcome.err = UnknownArgumentError(last.token)

\* C9: an argument is stored only with a number n of values within its arity,
\* min <= n <= max, and when fewer than min value tokens stand between the
\* cursor and the first disqualifying token or the end, parse() fails with
\* TooFewArgumentsError carrying the argument's name, min and the count.
Disqualified(a, tok) == startswith(tok, "-") /\ Node[a].type \notin {"int", "float"}
Available(a, toks, start) ==
    CHOOSE n \in 0..(Len(toks) - start) :
        /\ \A m \in 1..n : ~Disqualified(a, toks[start + m])
        /\ n = Len(toks) - start \/ Disqualified(a, toks[start + n + 1])
Least(x, y) == IF x < y THEN x ELSE y

C9_ArityRespected ==
    last.op = "argument" =>
        LET a == last.arg
            min_n == Node[a].num_args[1]
            max_n == Node[a].num_args[2]
            got == Least(Available(a, last.toks, last.start), max_n)
        IN  /\ pc = "parsing" =>
                 /\ DHas(Top.result, Node[a].name)
                 /\ min_n <= Len(DGet(Top.result, Node[a].name).vals)
                 /\ Len(DGet(Top.result, Node[a].name).vals) <= max_n
            /\ got < min_n =>
                 /\ Done
                 /\ outcome.err = TooFewArgumentsError(Node[a].name, min_n, got)
            /\ (Done /\ outcome.stage = "matching"
                     /\ outcome.err.type = "TooFewArgumentsError") =>
                 got < min_n

C9_Witness ==
    /\ last.op = "argument"
    /\ last.arg = "two"
    /\ last.values = <<"a">>
    /\ outcome.err = TooFewArgumentsError("--two", 2, 1)

\* C10: the collector takes the adjacent tokens from the cursor while fewer
\* than max are taken and tokens remain, stopping at the first dash-prefixed
\* token unless the type is int or float, for which dash-prefixed tokens
\* (declared flag names too) are taken; the cursor returned is the start
\* cursor plus the number of values taken.
C10_GreedyCollection ==
    last.op = "argument" =>
        LET a == last.arg
            n == Len(last.values)
        IN  /\ last.cursor = last.start + n
            /\ last.cursor <= Len(last.toks)
            /\ last.values = SubSeq(last.toks, last.start + 1, last.start + n)
            /\ n <= Node[a].num_args[2]
            /\ \A m \in 1..n : ~Disqualified(a, last.values[m])
            /\ \/ n = Node[a].num_args[2]
               \/ last.cursor = Len(last.toks)
               \/ Disqualified(a, last.toks[last.cursor + 1])

C10_Witness ==
    /\ last.op = "argument"
    /\ Node[last.arg].type = "int"
    /\ Len(last.values) >= 2
    /\ \E m \in DOMAIN last.values : last.values[m] \in DashDashWords
    /\ \E m \in DOMAIN last.values : last.values[m] = "-1"

\* C11: an argument declared with choices = [1, 2, 3] accepts exactly the
\* value tokens that convert to 1, 2 or 3; every other value token, whether it
\* converts to another value ("5") or does not convert at all ("a"), is
\* rejected with InvalidChoiceError naming the offending values and the
\* allowed set.
ChoiceTokens == {"1", "2", "3"}
OtherNumerals == {"5", "120", "-1"}

C11_ChoicesEnforced ==
    (last.op = "argument" /\ last.arg = "level" /\ last.values # <<>>) =>
        LET given == {last.values[j] : j \in DOMAIN last.values}
        IN  /\ given \subseteq ChoiceTokens =>
                 /\ ~(Done /\ outcome.stage = "matching")
                 /\ pc = "parsing" => DHas(Top.result, "--level")
            /\ ~(given \subseteq ChoiceTokens) =>
                 /\ Done
                 /\ outcome.stage = "matching"
                 /\ outcome.err.type = "InvalidChoiceError"
                 /\ outcome.err.name = "--level"
                 /\ outcome.err.choices = {IntV(1), IntV(2), IntV(3)}
                 /\ \A t \in given \cap OtherNumerals :
                        \E v \in outcome.err.value : v = IntV(NumeralValue(t))

\* C12: when a collected value token cannot be converted by the declared type
\* of the argument, parse() fails with ArgumentTypeError naming the value and
\* the expected type, and with no other kind of exception.
C12_ConversionFailureReported ==
    (last.op = "argument" /\ Node[last.arg].type \in {"int", "float"}
        /\ Len(last.values) >= Node[last.arg].num_args[1]
        /\ \E j \in DOMAIN last.values : last.values[j] \notin Numerals) =>
        /\ Done
        /\ outcome.err.type = "ArgumentTypeError"
        /\ outcome.err.expected_type = Node[last.arg].type
        /\ \E j \in DOMAIN last.values :
               /\ last.values[j] \notin Numerals
               /\ outcome.err.value = {last.values[j]}

\* C13: cross-constraint validation runs in the order mutual exclusion,
\* conditional dependency, required, after token matching: a token list of
\* distinct flags that violates several of them is reported with the first
\* violated constraint in that order (mutex group {--a, --b}, conditional
\* group [--c, --d] first-present-rest-required, required --req).
Given(t) == \E j \in DOMAIN tokens : tokens[j] = t
DistinctFlags ==
    /\ \A j \in DOMAIN tokens : tokens[j] \in {"--a", "--b", "--c", "--req"}
    /\ \A j, m \in DOMAIN tokens : tokens[j] = tokens[m] => j = m

C13_ValidationOrder ==
    (Done /\ schema = "order" /\ DistinctFlags) =>
        LET mutex == Given("--a") /\ Given("--b")
            conditional == Given("--c")
            required == ~Given("--req")
        IN  /\ mutex => outcome.err = MutuallyExclusiveArgumentsError(<<"--a", "--b">>)
            /\ (~mutex /\ conditional) =>
                   /\ outcome.err.type = "ConditionalDependencyError"
                   /\ outcome.err.name = "--d"
                   /\ outcome.err.cond = "--c"
            /\ (~mutex /\ ~conditional /\ required) =>
                   outcome.err = MissingRequiredArgumentError("--req")

\* C14 as stated: flatten(resultMap) has, for every entry whose value is a
\* nested mapping and whose key is no Recurring group name, that mapping's
\* entries at the top level in place of the entry, and every other entry
\* with its key and value unchanged.
Spliced(e) == "map" \in DOMAIN e.v /\ ~DHas(recurring_data, e.k)

Arrivals(result) ==
    {<<j, 0, result[j].k, result[j].v>> : j \in {i \in DOMAIN result : ~Spliced(result[i])}}
        \cup UNION {{<<j, m, result[j].v.map[m].k, result[j].v.map[m].v>> :
                        m \in DOMAIN result[j].v.map} :
                    j \in {i \in DOMAIN result : Spliced(result[i])}}
Later(x, y) == x[1] > y[1] \/ (x[1] = y[1] /\ x[2] > y[2])

LatestWins ==
    pc = "flattened" =>
        LET result == outcome.result
            flat == outcome.flat
            arr == Arrivals(result)
        IN  /\ DKeys(flat) = {x[3] : x \in arr}
            /\ DistinctKeys(flat)
            /\ \A x \in arr :
                   (\A y \in arr : y[3] = x[3] => ~Later(y, x)) => DGet(flat, x[3]) = x[4]

C15_PlainGroupTransparent ==
    (Done /\ schema = "plain"
          /\ tokens \in {<<"--count", "5">>, <<"grp", "--count", "5">>,
                         <<"grp", "-c", "5">>}) =>
        /\ Returned
        /\ DHas(ns_values, "--count")
        /\ DGet(ns_values, "--count") \in {IntV(5), [vals |-> <<IntV(5)>>]}

\* C16: every error aborts the parse() call at once with no partial result:
\* while tokens are matched, and when parse() has failed at matching or at a
\* validation pass, the namespace holds exactly the values it held before
\* the call; no value parsed from the failing token list is stored.
ValuesBeforeCall == Declare([values |-> <<>>, types |-> <<>>], RootArguments(schema)).values

C16_NoPartialResult ==
    (pc = "parsing" \/ (Done /\ outcome.status = "error")) =>
        /\ ns_values = ValuesBeforeCall
        /\ Done => stack = <<>>

C16_Witness ==
    /\ Done
    /\ schema = "store"
    /\ outcome.stage = "validation"
    /\ outcome.err = MissingRequiredArgumentError("--req")
    /\ DHas(outcome.flat, "--count")
    /\ ns_values = ValuesBeforeCall

\* C17: each parse() call owns its indices, accumulators and consumed-token
\* list: when a call starts, the named index holds exactly the names and
\* aliases of the root's children, the consumed-token list is empty and the
\* Recurring accumulators are empty, whatever calls were made before; and
\* the outcome of a call does not depend on earlier calls: on schema count,
\* parse(["-c", "5"]) and parse(["file.txt"]) end on a later call as they end
\* on the first call on a new Parser (with MissingRequiredArgumentError for
\* input, and with the KeyError of C1).
CallStarts == pc = "parsing" /\ iters = 0 /\ Len(stack) = 1 /\ Top.i = 0

C17_CallsIndependent ==
    /\ CallStarts =>
           /\ DKeys(parser_args) = GroupWords("root") \ {""}
           /\ consumed_args = <<>>
           /\ \A j \in DOMAIN recurring_data : heap[recurring_data[j].v] = <<>>
    /\ (Done /\ schema = "count" /\ tokens = <<"-c", "5">>) =>
           outcome.err = MissingRequiredArgumentError("input")
    /\ (Done /\ schema = "count" /\ tokens = <<"file.txt">>) =>
           outcome.err = Raise("KeyError", "file.txt")

\* C18: Argument construction derives the inclusive arity bounds from the
\* specifier: None -> (1, 1), "?" -> (0, 1), "*" -> (0, unbounded),
\* "+" -> (1, unbounded), an integer k >= 0 -> (k, k); a negative integer k
\* makes the construction fail with InvalidValueError.
Constructed == pc = "made" /\ made.args \in ConstructorCalls
\* keyword arguments that no other rule of the constructor rejects
PlainCall(a) ==
    /\ a.name \in {"foo", "--foo"}
    /\ a.alias = NoneV
    /\ ~(a.required /\ a.default # NoneV)
ValidArity(a) == a.num_args \in {NoneV, StrV("?"), StrV("*"), StrV("+")}
                     \/ ("int" \in DOMAIN a.num_args /\ a.num_args.int >= 0)

C18_ArityBoundsDerived ==
    (Constructed /\ PlainCall(made.args) /\ made.args.min = NoneV /\ made.args.max = NoneV
        /\ made.args.choices = NoneV /\ made.args.num_args # StrV("x")) =>
        LET n == made.args.num_args
        IN  IF "int" \in DOMAIN n /\ n.int < 0
            THEN made.status = "error" /\ made.err.type = "InvalidValueError"
            ELSE /\ made.status = "ok"
                 /\ made.obj.num_args =
                        CASE n = NoneV -> <<1, 1>>
                          [] n = StrV("?") -> <<0, 1>>
                          [] n = StrV("*") -> <<0, maxsize>>
                          [] n = StrV("+") -> <<1, maxsize>>
                          [] OTHER -> <<n.int, n.int>>

\* C19: choices and the numeric range exclude each other: constructing an
\* argument with an explicit choices list together with min and/or max fails
\* with the conflict error, for every value type, so no constructed node
\* carries both.
C19_ChoicesRangeConflict ==
    (Constructed /\ PlainCall(made.args) /\ ValidArity(made.args)
        /\ made.args.choices # NoneV
        /\ (made.args.min # NoneV \/ made.args.max # NoneV)) =>
        /\ made.status = "error"
        /\ made.err = MutuallyExclusiveArgumentsError(<<"range", "choices">>)

\* C20: for an int or float argument constructed with min and max,
\* min <= max, zero and negative values included, the stored min and max are
\* the given ones and the derived choices are the inclusive range
\* {min, ..., max}.
C20_RangeDerivesChoices ==
    (Constructed /\ PlainCall(made.args) /\ ValidArity(made.args)
        /\ made.args.type \in {"int", "float"} /\ made.args.choices = NoneV
        /\ made.args.min # NoneV /\ made.args.max # NoneV
        /\ made.args.min.int <= made.args.max.int) =>
        /\ made.status = "ok"
        /\ made.obj._min = made.args.min
        /\ made.obj._max = made.args.max
        /\ made.obj.choices =
               [set |-> {n \in (0 - MaxInt)..MaxInt :
                            made.args.min.int <= n /\ n <= made.args.max.int}]

\* C21: a constructed node that has an alias has it in the form -x and has a
\* name that starts with two dashes; constructing a positional node with an
\* alias, or any node with an alias that is not one letter optionally
\* preceded by a dash, fails with InvalidAliasError.
CanonicalAliases == {StrV("-f")}
LegalAliases == {StrV("f"), StrV("-f")}
C21_AliasCanonical ==
    (pc = "made" /\ made.args.alias # NoneV) =>
        IF startswith(made.args.name, "--") /\ made.args.alias \in LegalAliases
        THEN made.status = "ok" => made.obj.alias \in CanonicalAliases
        ELSE made.status = "error" /\ made.err.type = "InvalidAliasError"

\* C22: names[key] = value validates against the declared type: when a type
\* is declared for key and value is not an instance of it, the assignment
\* raises ArgumentTypeError and leaves the stored values and the declared
\* types unchanged; otherwise the value is stored under key and nothing else
\* changes.
InstanceOf(value, typ) ==
    CASE typ = "int" -> DOMAIN value \subseteq {"int", "bool"}
      [] typ = "str" -> "str" \in DOMAIN value
      [] typ = "bool" -> "bool" \in DOMAIN value
      [] typ = "tuple" -> "tuple" \in DOMAIN value
      [] OTHER -> FALSE
C22_SetItemValidates ==
    [][made'.op = "setitem" =>
         LET key == made'.key
             value == made'.value
         IN  IF DHas(ns_types, key) /\ ~InstanceOf(value, DGet(ns_types, key))
             THEN /\ made'.err.type = "ArgumentTypeError"
                  /\ ns_values' = ns_values
                  /\ ns_types' = ns_types
             ELSE /\ made'.status = "ok"
                  /\ ns_values' = DSet(ns_values, key, value)
                  /\ ns_types' = ns_types]_vars

\* C23: parse() terminates: every iteration of the token loop of a
\* _parse_args call that runs to its end leaves the cursor of that call
\* strictly greater than it was when the iteration began, also when the token
\* is matched to a group and also when that token is the last of the list.
IterationEnds == pc = "parsing" /\ pc' = "parsing" /\ Len(stack') <= Len(stack)
C23_CursorAdvances ==
    [][IterationEnds => stack'[Len(stack')].i > stack[Len(stack')].i]_vars

\* C24: when a nested _parse_args call returns, the cursor of the caller is,
\* in the caller's own token coordinates, just past the tokens the nested
\* call consumed: past the group's token and the count the nested call
\* returned.
NestedReturns == pc = "parsing" /\ pc' = "parsing" /\ Len(stack') < Len(stack)
C24_CursorAfterGroup ==
    [][NestedReturns =>
         stack'[Len(stack')].i = stack[Len(stack')].i + 1 + stack[Len(stack)].i]_vars

\* C25: positional arguments are matched by position: within one call the
\* k-th token that is no declared name or alias is bound to the k-th
\* positional child, wherever the named flags and their values stand.  On
\* schema count, "file.txt" is bound to input in ["file.txt"], in
\* ["file.txt", "-c", "5"] and in ["-c", "5", "file.txt"].
PositionalScenarios ==
    {<<"file.txt">>, <<"file.txt", "-c", "5">>, <<"-c", "5", "file.txt">>}
C25_PositionalByPosition ==
    (Done /\ schema = "count" /\ tokens \in PositionalScenarios) =>
        /\ \E j \in DOMAIN matched :
               matched[j] = [token |-> "file.txt", arg |-> "input", group |-> "root"]
        /\ outcome.stage = "validation"
        /\ DHas(outcome.result, "input")
        /\ DGet(outcome.result, "input") = [vals |-> <<StrV("file.txt")>>]

\* C26: once a non-recurring flag-style node has been matched, by its name
\* or by its alias, both its name and its alias are out of the named index,
\* and a later token of the call that spells either is not looked up to that
\* node again.
FlagMatched ==
    /\ last.op = "argument"
    /\ startswith(last.token, "-")
    /\ ~DHas(recurring_data, last.token)
C26_NameAndAliasRemoved ==
    FlagMatched =>
        /\ ~DHas(parser_args, Node[last.arg].name)
        /\ Node[last.arg].alias # "" => ~DHas(parser_args, Node[last.arg].alias)

\* C27: a Recurring group is never removed from the named index: after it
\* has been matched, by its name or by its alias, its name and its alias are
\* both still in the index.
RecurringMatched ==
    /\ last.op = "group"
    /\ Node[last.arg].group_type = "recurring_group"
C27_RecurringStaysIndexed ==
    RecurringMatched =>
        /\ DHas(parser_args, Node[last.arg].name)
        /\ Node[last.arg].alias # "" => DHas(parser_args, Node[last.arg].alias)

\* C28: the named index and the positional index a _parse_args call works
\* with hold only the names, aliases and positionals of the children of that
\* call's own group, and a call matches a token only to a child of its own
\* group.
InSeq(x, seq) == \E j \in DOMAIN seq : seq[j] = x
C28_IndicesScopedToCall ==
    /\ pc = "parsing" =>
           /\ DKeys(parser_args) \subseteq GroupWords(Top.group)
           /\ DKeys(positional_args) \subseteq GroupWords(Top.group)
    /\ \A j \in DOMAIN matched : InSeq(matched[j].arg, Children(matched[j].group))

C30_GetItemRevalidates ==
    [][made'.op = "getitem" =>
         LET key == made'.key
         IN  /\ ns_values' = ns_values
             /\ ns_types' = ns_types
             /\ IF ~DHas(ns_values, key)
                THEN made'.err = Raise("KeyError", key)
                ELSE IF /\ DHas(ns_types, key)
                        /\ ~InstanceOf(DGet(ns_values, key), DGet(ns_types, key))
                THEN made'.err.type = "ArgumentTypeError"
                ELSE /\ made'.status = "ok"
                     /\ made'.value = DGet(ns_values, key)]_vars

====
